---------------------------- MODULE Spec2Model ----------------------------
(***************************************************************************)
(* A model of musio's FFmpegFile (src/musio/ffmpeg_file.py) and of the     *)
(* AudioPlayer that drives it from a worker process                        *)
(* (src/musio/player_util.py).                                             *)
(*                                                                         *)
(* Bytes are modelled as small integers that say where a byte came from:   *)
(* 0 is a b'\x00' filler byte, i in 1..Len(src) a byte decoded from packet *)
(* i of the source, DrainTag a byte the decoder gave up when drained at    *)
(* end of file, InputTag a byte handed to write().                         *)
(*                                                                         *)
(* Spec        the stream object alone: read/seek/loops/close on a         *)
(*             read-mode stream, write/close on a write-mode stream.       *)
(***************************************************************************)
EXTENDS Integers, Sequences, FiniteSets, TLC

\* ------------------------------------------------------------------ bounds
MaxPackets == 2
MaxSize == 2
MaxLoops == 1
MaxDrain == 1
MaxSamples == 2
MaxWidth == 2
MaxFrames == 2

\* ------------------------------------------------------- program constants
Million == 1000000
NoSeek == -1
Infinite == -1
SeekFirst == 0

VARIABLES
    \* the FFmpegFile object
    mode,        \* self._mode: "r" or "w"
    closed,      \* self._closed
    data,        \* self._data: carry buffer (read) / accumulator (write)
    seek_pos,    \* self._seek_pos
    position,    \* self._position
    loops,       \* self._loops
    loop_count,  \* self._loop_count
    next_pts,    \* self._next_pts
    \* the codec backend behind it
    pkt_idx,     \* index in src of the packet av_read_frame returns next
    dec,         \* decoder: "fresh" (flushed), "fed", "eof" (drained)
    enc_held,    \* packets the encoder holds and has not yet given out
    sent,        \* pts of every frame handed to avcodec_send_frame, in order
    muxed,       \* packets written to the container
    trailers,    \* calls of av_write_trailer
    releases,    \* times the contexts were freed
    \* the file and the codec (fixed once the stream is open)
    src,         \* the packets of the container, in order
    drain,       \* bytes the decoder still holds when drained after input
    nb_samples,  \* samples per encode frame
    channels,    \* self._channels
    sample_size, \* bytes per sample of self._sample_fmt
    enc_delay,   \* frames the encoder holds back
    pipe_cap,    \* commands the pipe takes before send() blocks
    \* history
    restarts,    \* automatic restarts performed by read
    loops_fixed, \* no loops setter since the stream was opened
    lowered,     \* a loops setter has set loops below loop_count
    written,     \* bytes handed to write() so far
    last,        \* the last operation: its arguments, result and events
    \* AudioPlayer: the shared msg_dict
    playing,     \* msg_dict['playing'] (an absent key reads as False)
    paused,      \* msg_dict['paused'] (absent only before the first open(),
                 \* when no worker reaches its loop; play() then leaves
                 \* it False, as the model does)
    error,       \* msg_dict holds 'error'
    info,        \* the worker has stored 'info' and 'length'
    has_file,    \* msg_dict holds 'filename'
    opt_loops,   \* msg_dict.get('loops', -1)
    \* AudioPlayer: the control pipe
    to_worker,   \* commands sent by the controller, not yet received
    to_ctl,      \* answers sent by the worker, not yet received, each with
                 \* the command it answers
    \* the worker process running _play_proc
    wpc,         \* its position: "none" before the first spawn, "dead" after
    buf,         \* its local buf
    wpaused,     \* the value of 'paused' it read at line 250
    \* the controller (the caller of the AudioPlayer methods)
    cpc,         \* its position inside the method it runs, "idle" between
    cop,         \* the public method it runs, or the last it has run
    carg,        \* the argument of that method
    cval,        \* the value the last accessor returned
    \* history of the player
    spawned,     \* workers started by the method in progress or last returned
    joined,      \* that method has waited for a worker to end
    pre,         \* the flags that method found when it was called
    overlap,     \* a worker was started while another was alive
    muted,       \* open() has returned and play() has not been called since
    rd_muted,    \* the worker has read the stream while muted
    set_loops,   \* the value last sent with 'setloops' to this worker
    sink,        \* what the device of the running worker has been given
    rd_paused    \* stream reads done since 'paused' was last written, while
                 \* it was True

fvars == <<mode, closed, data, seek_pos, position, loops, loop_count, next_pts>>
bvars == <<pkt_idx, dec, enc_held, sent, muxed, trailers, releases>>
evars == <<src, drain, nb_samples, channels, sample_size, enc_delay,
           pipe_cap>>
hvars == <<restarts, loops_fixed, lowered, written, last>>
svars == <<fvars, bvars, evars, hvars>>
mvars == <<playing, paused, error, info, has_file, opt_loops>>
chvars == <<to_worker, to_ctl>>
wvars == <<wpc, buf, wpaused>>
cvars == <<cpc, cop, carg, cval>>
gvars == <<spawned, joined, pre, overlap, muted, rd_muted, set_loops>>
kvars == <<sink, rd_paused>>
pvars == <<mvars, chvars, wvars, cvars, gvars, kvars>>
vars == <<svars, pvars>>

\* ----------------------------------------------------------------- helpers
Min(a, b) == IF a < b THEN a ELSE b

Max(a, b) == IF a > b THEN a ELSE b

\* bytes * n of python: n copies, none when n <= 0
Bytes(tag, n) == [i \in 1..n |-> tag]

\* data[:n]
Take(d, n) == SubSeq(d, 1, Min(n, Len(d)))

\* data[n:]
Drop(d, n) == SubSeq(d, Min(n, Len(d)) + 1, Len(d))

DrainTag == MaxPackets + 1

InputTag == MaxPackets + 2

\* The packets a container may hold: packets of the audio stream, which decode
\* to 0..MaxSize bytes, and packets of another stream.
Packets ==
    {[audio |-> TRUE, nbytes |-> n] : n \in 0..MaxSize}
        \cup {[audio |-> FALSE, nbytes |-> 0]}

SeqsUpTo(S, n) == UNION {[1..k -> S] : k \in 0..n}

Sources == SeqsUpTo(Packets, MaxPackets)

\* The stream's time base: one tick is half a second.
TimeBase == [num |-> 1, den |-> 2]

\* Packet i carries pts i - 1.
Pts(i) == i - 1

\* The record kept of the last operation.
\*   op        "read", "write", "close", "setloops", "setposition"
\*   size, ret read(size) and the bytes it returned
\*   n, wret   write of n bytes and the number it returned; the value of a
\*             setter; for close, 1 when the stream was closed already
\*   carry     length of self._data when the operation began
\*   seeked    the target read() sought to before pulling, or NoSeek
\*   remain    a packet was left in the container when read() began to pull
\*   live      loops == -1 or loop_count < loops when read() began
\*   exh       no packet left and no seek pending when read() began
\*   pulls     packets read() took from the container
\*   got       bytes in data when the pull loop ended, before any filler
\*   maxchunk  the longest piece the decoder gave in this call
\*   eof       read() met the end of the container
\*   terminal  ... and did not restart;  restart  ... and restarted
\*   encoded   frames handed to the encoder by this operation
\*   lc        loop_count when the operation began
NoOp == [op |-> "none", size |-> 0, ret |-> <<>>, n |-> 0, wret |-> 0,
         carry |-> 0, seeked |-> NoSeek, remain |-> FALSE, live |-> FALSE,
         exh |-> FALSE, pulls |-> 0, got |-> 0, maxchunk |-> 0,
         eof |-> FALSE, terminal |-> FALSE, restart |-> FALSE,
         encoded |-> 0, lc |-> 0]

\* ------------------------------------------------------------ the read path

\* self._position as read() computes it from a packet's pts and the stream's
\* time base: 1000000 * (pts * (num / den)).
PositionOf(i) == (Million * (Pts(i) * TimeBase.num)) \div TimeBase.den

\* avformat_seek_file(ctx, -1, min, ts, max, AVSEEK_FLAG_BACKWARD): the demuxer
\* continues at the last packet that starts at or before ts.
SeekFile(ts) ==
    LET at == {i \in 1..Len(src) : PositionOf(i) <= ts}
    IN  IF at = {} THEN 1 ELSE CHOOSE i \in at : \A j \in at : j <= i

\* Mutant of SeekBeforeRead: every target but -1 is sought.
SeekBeforeReadAnyTarget ==
    IF seek_pos # NoSeek
    THEN [idx |-> SeekFile(seek_pos), dec |-> "fresh", seeked |-> seek_pos]
    ELSE [idx |-> pkt_idx, dec |-> dec, seeked |-> NoSeek]

\* Mutant of SeekBeforeRead: the request is cleared but the demuxer is not
\* moved.
SeekBeforeReadInPlace ==
    IF seek_pos > NoSeek
    THEN [idx |-> pkt_idx, dec |-> "fresh", seeked |-> seek_pos]
    ELSE [idx |-> pkt_idx, dec |-> dec, seeked |-> NoSeek]

\* The seek read() performs before it pulls: the pending target is executed,
\* the decoder flushed and the request cleared.
SeekBeforeRead ==
    IF seek_pos > NoSeek
    THEN [idx |-> SeekFile(seek_pos), dec |-> "fresh", seeked |-> seek_pos]
    ELSE [idx |-> pkt_idx, dec |-> dec, seeked |-> NoSeek]

\* av_read_frame(...) < 0: the container has no packet left.
EndOfFile(idx) == idx > Len(src)

\* _drain_decoder: the bytes one packet decodes to.  The blank packet left by
\* a failed av_read_frame asks the decoder for what it still holds; a decoder
\* that was drained refuses input (AVERROR_EOF) until it is flushed.
DrainDecoder(idx, dc) ==
    IF dc = "eof" THEN <<>>
    ELSE IF EndOfFile(idx)
         THEN (IF dc = "fed" THEN Bytes(DrainTag, drain) ELSE <<>>)
         ELSE Bytes(idx, src[idx].nbytes)

DecoderAfter(idx, dc) ==
    IF EndOfFile(idx) \/ dc = "eof" THEN "eof" ELSE "fed"

\* while not data or len(data) < size
NeedMore(d, size) == d = <<>> \/ Len(d) < size

\* Mutants of Terminal: the comparison off by one; no end of looping at all.
TerminalOffByOne(lp, lc) == lp # Infinite /\ lc > lp

TerminalNever(lp, lc) == FALSE

\* The condition under which read() stops restarting at end of file.
Terminal(lp, lc) == lp # Infinite /\ lc >= lp

\* Mutants of EofFill: no filler before a restart; filler even when the call
\* gathered nothing.
EofFillNoPad(d, size, lp, lc) ==
    IF Terminal(lp, lc)
    THEN (IF Len(d) # 0 THEN d \o Bytes(0, size - Len(d)) ELSE d)
    ELSE d

EofFillAlways(d, size, lp, lc) == d \o Bytes(0, size - Len(d))

\* What read() appends at end of file
\* (zero filler only when there is data, unless it restarts).
EofFill(d, size, lp, lc) ==
    IF Terminal(lp, lc)
    THEN (IF Len(d) # 0 THEN d \o Bytes(0, size - Len(d)) ELSE d)
    ELSE d \o Bytes(0, size - Len(d))

\* Mutant of ReadLoop: the end of the container does not end the call; the
\* demuxer is rewound and the loop goes on, until a second end.
RECURSIVE ReadLoopRewinds(_, _, _, _, _, _, _)
ReadLoopRewinds(size, d, idx, pos, dc, pulls, chunk) ==
    IF ~NeedMore(d, size)
    THEN [data |-> d, idx |-> idx, pos |-> pos, dec |-> dc, eof |-> FALSE,
          pulls |-> pulls, chunk |-> chunk]
    ELSE IF EndOfFile(idx)
    THEN IF pulls <= Len(src) /\ Len(src) > 0
         THEN ReadLoopRewinds(size, d, 1, pos, "fresh", pulls + 1, chunk)
         ELSE [data |-> d, idx |-> idx, pos |-> pos, dec |-> "eof",
               eof |-> TRUE, pulls |-> pulls, chunk |-> chunk]
    ELSE IF ~src[idx].audio
    THEN ReadLoopRewinds(size, d, idx + 1, PositionOf(idx), dc, pulls + 1,
                         chunk)
    ELSE LET out == DrainDecoder(idx, dc)
         IN  ReadLoopRewinds(size, d \o out, idx + 1, PositionOf(idx),
                             DecoderAfter(idx, dc), pulls + 1,
                             Max(chunk, Len(out)))

\* The pull loop of read(): packets are taken until data holds size bytes or
\* the container ends.
RECURSIVE ReadLoop(_, _, _, _, _, _, _)
ReadLoop(size, d, idx, pos, dc, pulls, chunk) ==
    IF ~NeedMore(d, size)
    THEN [data |-> d, idx |-> idx, pos |-> pos, dec |-> dc, eof |-> FALSE,
          pulls |-> pulls, chunk |-> chunk]
    ELSE IF EndOfFile(idx)
    THEN LET out == DrainDecoder(idx, dc)
         IN  [data |-> d \o out, idx |-> idx, pos |-> pos,
              dec |-> DecoderAfter(idx, dc), eof |-> TRUE,
              pulls |-> pulls, chunk |-> Max(chunk, Len(out))]
    ELSE IF ~src[idx].audio
    THEN ReadLoop(size, d, idx + 1, PositionOf(idx), dc, pulls + 1, chunk)
    ELSE LET out == DrainDecoder(idx, dc)
         IN  ReadLoop(size, d \o out, idx + 1, PositionOf(idx),
                      DecoderAfter(idx, dc), pulls + 1, Max(chunk, Len(out)))

\* Mutant of Carry: everything is kept, also what is returned.
CarryAll(d, size) == d

\* self._data = data[size:]
Carry(d, size) == Drop(d, size)

\* return data[:size]
Returned(d, size) == Take(d, size)

\* self.seek(0) of the base class: the position setter, so _set_position.
\* The seek is only requested here; the next read() performs it.
SeekRequest(offset) == offset

\* Mutant of Leftover: a pending seek discards what earlier calls left.
LeftoverUnlessSeek == IF seek_pos > NoSeek THEN <<>> ELSE data

\* data = self._data: read() starts from what earlier calls left over,
\* whether a seek is pending or not.
Leftover == data

\* One whole call of read(size).
ReadCall(size) ==
    LET s == SeekBeforeRead
        r == ReadLoop(size, Leftover, s.idx, position, s.dec, 0, 0)
        term == Terminal(loops, loop_count)
        full == IF r.eof THEN EofFill(r.data, size, loops, loop_count)
                ELSE r.data
        again == r.eof /\ ~term
    IN  [data |-> Carry(full, size),
         ret |-> Returned(full, size),
         idx |-> r.idx, pos |-> r.pos, dec |-> r.dec,
         seek_pos |-> IF again THEN SeekRequest(SeekFirst)
                      ELSE IF seek_pos > NoSeek THEN NoSeek ELSE seek_pos,
         loop_count |-> IF again THEN loop_count + 1 ELSE loop_count,
         eof |-> r.eof, terminal |-> r.eof /\ term, restart |-> again,
         seeked |-> s.seeked, pulls |-> r.pulls,
         remain |-> ~EndOfFile(s.idx), chunk |-> r.chunk,
         got |-> Len(r.data)]

\* io_wrapper of the base class lets read() through on an open read stream.
io_wrapper == mode = "r" /\ ~closed

Read(size) ==
    /\ io_wrapper
    /\ loop_count <= MaxLoops
    /\ LET c == ReadCall(size)
       IN  /\ data' = c.data
           /\ seek_pos' = c.seek_pos
           /\ position' = c.pos
           /\ loop_count' = c.loop_count
           /\ pkt_idx' = c.idx
           /\ dec' = c.dec
           /\ restarts' = IF c.restart THEN restarts + 1 ELSE restarts
           /\ last' = [NoOp EXCEPT !.op = "read", !.size = size,
                          !.ret = c.ret, !.eof = c.eof,
                          !.terminal = c.terminal, !.restart = c.restart,
                          !.seeked = c.seeked, !.pulls = c.pulls,
                          !.remain = c.remain, !.carry = Len(data),
                          !.maxchunk = c.chunk, !.got = c.got,
                          !.live = ~Terminal(loops, loop_count),
                          !.lc = loop_count,
                          !.exh = EndOfFile(pkt_idx) /\ seek_pos <= NoSeek]
    /\ UNCHANGED <<mode, closed, loops, next_pts, enc_held, sent, muxed,
                   trailers, releases, evars, loops_fixed, lowered, written>>

\* _set_position: the seek is deferred to the next read().
SetPosition(t) ==
    /\ mode = "r" /\ ~closed
    /\ seek_pos' = t
    /\ last' = [NoOp EXCEPT !.op = "setposition", !.n = t]
    /\ UNCHANGED <<mode, closed, data, position, loops, loop_count, next_pts,
                   bvars, evars, restarts, loops_fixed, lowered, written>>

\* The loops setter of the base class stores the value.
LoopsSetter(n) == n

\* fileobj.loops = command['setloops'], done by the worker between two reads.
SetLoops(n) ==
    /\ mode = "r" /\ ~closed
    /\ loops' = LoopsSetter(n)
    /\ loops_fixed' = FALSE
    /\ lowered' = (lowered \/ (n # Infinite /\ n < loop_count))
    /\ last' = [NoOp EXCEPT !.op = "setloops", !.n = n]
    /\ UNCHANGED <<mode, closed, data, seek_pos, position, loop_count,
                   next_pts, bvars, evars, restarts, written>>

SeekTargets ==
    {NoSeek - 1, NoSeek}
        \cup {PositionOf(i) : i \in 1..MaxPackets}
        \cup {PositionOf(MaxPackets) + 1}

\* ----------------------------------------------------------- the write path

\* Mutant of BufferLen: the sample size is left out.
BufferLenNoWidth == nb_samples * channels

\* self._buffer_len: samples per channel times channels times sample size.
BufferLen == nb_samples * channels * sample_size

\* _resample_from_bytes returns what swr_convert_frame returns: 0 on success.
ResampleFromBytes(d) == 0

\* The encoder after one more frame: it gives out every packet it has ready
\* and holds back at most enc_delay.
ReadyPackets(held) == Max(0, held - enc_delay)

\* Mutant of Encode: the frame is stamped after the counter has advanced.
EncodeStampAfter(e, out) ==
    LET pts == e.next_pts + nb_samples
        stamped == [e EXCEPT !.next_pts = pts]
    IN  IF ResampleFromBytes(out) = 0 /\ out = <<>>
        THEN [e |-> stamped, ret |-> 0]
        ELSE LET held == e.held + 1
                 ready == ReadyPackets(held)
             IN  [e |-> [stamped EXCEPT !.sent = Append(e.sent, pts),
                                        !.held = held - ready,
                                        !.muxed = e.muxed + ready],
                  ret |-> Len(out)]

\* _encode(out): e is the write-side state [data, next_pts, sent, held, muxed].
\* The frame is stamped and the counter advanced; an empty input after a
\* successful resample returns before anything reaches the encoder.
Encode(e, out) ==
    LET pts == e.next_pts
        stamped == [e EXCEPT !.next_pts = pts + nb_samples]
        out_linesize == ResampleFromBytes(out)
    IN  IF out_linesize = 0 /\ out = <<>>
        THEN [e |-> stamped, ret |-> 0]
        ELSE LET held == e.held + 1
                 ready == ReadyPackets(held)
             IN  [e |-> [stamped EXCEPT !.sent = Append(e.sent, pts),
                                        !.held = held - ready,
                                        !.muxed = e.muxed + ready],
                  ret |-> Len(out)]

\* write(bytes) on the write-side state e.
WriteOn(e, bytes) ==
    LET d == e.data \o bytes
    IN  IF Len(d) < BufferLen
        THEN [e |-> [e EXCEPT !.data = d], ret |-> 0]
        ELSE Encode([e EXCEPT !.data = Drop(d, BufferLen)], Take(d, BufferLen))

WriteState ==
    [data |-> data, next_pts |-> next_pts, sent |-> sent, held |-> enc_held,
     muxed |-> muxed]

MaxWrite == 4

Write(n) ==
    /\ mode = "w" /\ ~closed
    /\ Len(sent) < MaxFrames
    /\ Len(data) <= BufferLen
    /\ LET w == WriteOn(WriteState, Bytes(InputTag, n))
       IN  /\ data' = w.e.data
           /\ next_pts' = w.e.next_pts
           /\ sent' = w.e.sent
           /\ enc_held' = w.e.held
           /\ muxed' = w.e.muxed
           /\ last' = [NoOp EXCEPT !.op = "write", !.n = n, !.wret = w.ret,
                          !.carry = Len(data),
                          !.encoded = Len(w.e.sent) - Len(sent)]
    /\ written' = written + n
    /\ UNCHANGED <<mode, closed, seek_pos, position, loops, loop_count,
                   pkt_idx, dec, trailers, releases, evars, restarts,
                   loops_fixed, lowered>>

\* while self.write(b''): pass
RECURSIVE FlushAccumulator(_)
FlushAccumulator(e) ==
    LET w == WriteOn(e, <<>>)
    IN  IF w.ret # 0 THEN FlushAccumulator(w.e) ELSE w.e

\* Mutant of CloseWriter: what is left after the flush is encoded as a last,
\* short frame.
CloseWriterEncodesRest(e) ==
    LET f == FlushAccumulator(e)
    IN  Encode([f EXCEPT !.data = <<>>], f.data).e

\* The write-mode part of close(): flush the accumulator, then _encode(b'').
CloseWriter(e) == Encode(FlushAccumulator(e), <<>>).e

\* What close() does to a stream that is not closed: a writer is flushed and
\* its trailer written, the contexts are freed, the stream is marked closed.
Release ==
    /\ LET e == IF mode = "w" THEN CloseWriter(WriteState) ELSE WriteState
       IN  /\ data' = e.data
           /\ next_pts' = e.next_pts
           /\ sent' = e.sent
           /\ enc_held' = e.held
           /\ muxed' = e.muxed
    /\ trailers' = IF mode = "w" THEN trailers + 1 ELSE trailers
    /\ releases' = releases + 1
    /\ closed' = TRUE

CloseRest ==
    /\ last' = [NoOp EXCEPT !.op = "close", !.carry = Len(data),
                   !.n = IF closed THEN 1 ELSE 0,
                   !.encoded = Len(sent') - Len(sent)]
    /\ UNCHANGED <<mode, seek_pos, position, loops, loop_count, pkt_idx, dec,
                   evars, restarts, loops_fixed, lowered, written>>

\* Mutant of Close: no test of self.closed.
CloseUnguarded == Release /\ CloseRest

\* close()
Close ==
    /\ IF closed
       THEN UNCHANGED <<closed, data, next_pts, sent, enc_held, muxed,
                        trailers, releases>>
       ELSE Release
    /\ CloseRest

\* ------------------------------------------------------------ specification
MaxChannels == 2

MaxDelay == 1

InitCommon ==
    /\ data = <<>>
    /\ seek_pos = NoSeek
    /\ position = 0
    /\ loop_count = 0
    /\ next_pts = 0
    /\ pkt_idx = 1
    /\ dec = "fresh"
    /\ enc_held = 0
    /\ sent = <<>>
    /\ muxed = 0
    /\ trailers = 0
    /\ releases = 0
    /\ restarts = 0
    /\ loops_fixed = TRUE
    /\ lowered = FALSE
    /\ written = 0
    /\ last = NoOp

InitReader ==
    /\ mode = "r"
    /\ src \in Sources
    /\ drain \in {0, MaxDrain}
    /\ loops \in Infinite..MaxLoops
    /\ nb_samples = 1 /\ channels = 1 /\ sample_size = 1 /\ enc_delay = 0

InitWriter ==
    /\ mode = "w"
    /\ src = <<>> /\ drain = 0 /\ loops = Infinite
    /\ nb_samples \in 1..MaxSamples
    /\ channels \in 1..MaxChannels
    /\ sample_size \in 1..MaxWidth
    /\ enc_delay \in 0..MaxDelay

\* None, as an accessor returns it.
NoValue == [none |-> TRUE, v |-> 0]

\* A device that has been given nothing yet.
NoSink == [open |-> FALSE, first |-> "none", last |-> <<>>]

\* No loops value has been sent since play() or open() was last called.
NoSetLoops == [none |-> TRUE, v |-> 0, early |-> FALSE]

MaxPipe == 1

\* No AudioPlayer has been constructed: the stream is used directly.  The
\* pipe made by __init__ takes cap commands.
InitPlayerWith(cap) ==
    /\ pipe_cap = cap
    /\ playing = FALSE /\ paused = FALSE /\ error = FALSE /\ info = FALSE
    /\ has_file = FALSE /\ opt_loops = Infinite
    /\ to_worker = <<>> /\ to_ctl = <<>>
    /\ wpc = "none" /\ buf = <<>> /\ wpaused = FALSE
    /\ cpc = "idle" /\ cop = "none" /\ carg = 0 /\ cval = NoValue
    /\ spawned = 0 /\ joined = FALSE /\ set_loops = NoSetLoops
    /\ pre = [playing |-> FALSE, paused |-> FALSE]
    /\ overlap = FALSE /\ muted = FALSE /\ rd_muted = FALSE
    /\ sink = NoSink /\ rd_paused = 0

InitPlayer == InitPlayerWith(MaxPipe)

Init == InitCommon /\ closed = FALSE /\ (InitReader \/ InitWriter) /\ InitPlayer

Next ==
    \/ \E size \in 1..MaxSize : Read(size) /\ UNCHANGED pvars
    \/ \E n \in Infinite..MaxLoops : SetLoops(n) /\ UNCHANGED pvars
    \/ \E n \in 0..MaxWrite : Write(n) /\ UNCHANGED pvars
    \/ Close /\ UNCHANGED pvars

Spec == Init /\ [][Next]_vars

\* A read stream whose user also sets the position between reads.
InitSeek == InitCommon /\ closed = FALSE /\ InitReader /\ InitPlayer

NextSeek ==
    \/ \E size \in 1..MaxSize : Read(size) /\ UNCHANGED pvars
    \/ \E t \in SeekTargets : SetPosition(t) /\ UNCHANGED pvars

SpecSeek == InitSeek /\ [][NextSeek]_vars

\* ------------------------------------------------- AudioPlayer: controller
\* device.buffer_size, also the size readline() asks read() for
BufferSize == MaxSize

Alive == wpc \notin {"none", "dead"}

\* The flags of msg_dict as a caller finds them.
Flags == [playing |-> playing, paused |-> paused]

\* The method `op` returns to its caller.
Returning(op) ==
    /\ cpc' = "idle"
    /\ cop' = op
    /\ muted' = IF op = "open" THEN TRUE ELSE muted

\* stop(), line 351: the test of msg_dict.get('playing', False)
StopBranch == IF playing THEN "stop_clear" ELSE "stop_end"

\* Mutant of PlayBranch: play() starts a worker whatever the flag says.
PlayAlwaysSpawn == "play_spawn"

\* play(), line 330: the test of msg_dict.get('playing', False)
PlayBranch == IF ~playing THEN "play_spawn" ELSE "play_paused"

\* stop() is called.
CallStop ==
    /\ cpc = "idle"
    /\ cop' = "stop" /\ cpc' = StopBranch
    /\ spawned' = 0 /\ joined' = FALSE /\ cval' = NoValue
    /\ UNCHANGED set_loops
    /\ pre' = Flags
    /\ UNCHANGED <<svars, mvars, chvars, wvars, carg, overlap, muted,
                   rd_muted, kvars>>

\* open(filename, loops=lp) is called: it begins with stop().
CallOpen(lp) ==
    /\ cpc = "idle"
    /\ cop' = "open" /\ carg' = lp /\ cpc' = StopBranch
    /\ spawned' = 0 /\ joined' = FALSE /\ cval' = NoValue
    /\ set_loops' = NoSetLoops
    /\ pre' = Flags
    /\ muted' = FALSE
    /\ UNCHANGED <<svars, mvars, chvars, wvars, overlap, rd_muted, kvars>>

\* stop(), line 353
StopClear ==
    /\ cpc = "stop_clear"
    /\ playing' = FALSE
    /\ cpc' = "stop_join"
    /\ UNCHANGED <<svars, paused, error, info, has_file, opt_loops, chvars,
                   wvars, cop, carg, cval, gvars, kvars>>

\* Mutant of StopJoin: stop() does not wait for the worker.
StopNoJoin ==
    /\ cpc = "stop_join"
    /\ paused' = FALSE
    /\ joined' = TRUE
    /\ UNCHANGED set_loops
    /\ rd_paused' = 0
    /\ cpc' = "stop_end"
    /\ UNCHANGED <<svars, playing, error, info, has_file, opt_loops, chvars,
                   wvars, cop, carg, cval, spawned, pre, overlap, muted,
                   rd_muted, sink>>

\* stop(), lines 356-359: join() returns once the worker has ended.
StopJoin ==
    /\ cpc = "stop_join"
    /\ ~Alive
    /\ paused' = FALSE
    /\ joined' = TRUE
    /\ UNCHANGED set_loops
    /\ rd_paused' = 0
    /\ cpc' = "stop_end"
    /\ UNCHANGED <<svars, playing, error, info, has_file, opt_loops, chvars,
                   wvars, cop, carg, cval, spawned, pre, overlap, muted,
                   rd_muted, sink>>

\* stop(), line 361, and back to the caller
StopEnd ==
    /\ cpc = "stop_end"
    /\ UNCHANGED <<svars, mvars, chvars, wvars, carg, cval, spawned, joined,
                   set_loops, pre, overlap, rd_muted, kvars>>
    /\ IF cop = "open"
       THEN /\ cpc' = "open_reset"
            /\ UNCHANGED <<cop, muted>>
       ELSE Returning("stop")

\* Mutant of OpenReset: open() also empties the command pipe.
OpenResetDrains ==
    /\ cpc = "open_reset"
    /\ playing' = FALSE /\ paused' = FALSE /\ error' = FALSE /\ info' = FALSE
    /\ has_file' = TRUE
    /\ opt_loops' = carg
    /\ carg' = 0
    /\ rd_paused' = 0
    /\ cpc' = "open_pause"
    /\ to_worker' = <<>>
    /\ UNCHANGED <<svars, to_ctl, wvars, cop, cval, gvars, sink>>

\* open(), lines 301-314: the dictionary is cleared and filled again.
OpenReset ==
    /\ cpc = "open_reset"
    /\ playing' = FALSE /\ paused' = FALSE /\ error' = FALSE /\ info' = FALSE
    /\ has_file' = TRUE
    /\ opt_loops' = carg
    /\ carg' = 0
    /\ rd_paused' = 0
    /\ cpc' = "open_pause"
    /\ UNCHANGED <<svars, chvars, wvars, cop, cval, gvars, sink>>

\* Mutant of OpenPause: open() does not call pause().
OpenNoPause ==
    /\ cpc = "open_pause"
    /\ cpc' = "play_check"
    /\ UNCHANGED <<svars, mvars, chvars, wvars, cop, carg, cval, gvars, kvars>>

\* open(), line 319: pause()
OpenPause ==
    /\ cpc = "open_pause"
    /\ paused' = TRUE
    /\ rd_paused' = 0
    /\ cpc' = "play_check"
    /\ UNCHANGED <<svars, playing, error, info, has_file, opt_loops, chvars,
                   wvars, cop, carg, cval, gvars, sink>>

\* open(), line 323: play()
PlayCheck ==
    /\ cpc = "play_check"
    /\ cpc' = PlayBranch
    /\ UNCHANGED <<svars, mvars, chvars, wvars, cop, carg, cval, gvars, kvars>>

\* play() is called.
CallPlay ==
    /\ cpc = "idle"
    /\ cop' = "play" /\ cpc' = PlayBranch
    /\ spawned' = 0 /\ joined' = FALSE /\ cval' = NoValue
    /\ set_loops' = NoSetLoops
    /\ pre' = Flags
    /\ muted' = FALSE
    /\ UNCHANGED <<svars, mvars, chvars, wvars, carg, overlap, rd_muted, kvars>>

\* play(), lines 332-339: a new worker process is started.
PlaySpawn ==
    /\ cpc = "play_spawn"
    /\ playing' = TRUE
    /\ overlap' = (overlap \/ Alive)
    /\ spawned' = spawned + 1
    /\ wpc' = "start"
    /\ cpc' = "play_end"
    /\ UNCHANGED <<svars, paused, error, info, has_file, opt_loops, chvars,
                   buf, wpaused, cop, carg, cval, joined, set_loops, pre, muted,
                   rd_muted, kvars>>

\* play(), line 340: the test of msg_dict.get('paused', True)
PlayPaused ==
    /\ cpc = "play_paused"
    /\ cpc' = IF paused THEN "play_unpause" ELSE "play_end"
    /\ UNCHANGED <<svars, mvars, chvars, wvars, cop, carg, cval, gvars, kvars>>

\* play(), line 342
PlayUnpause ==
    /\ cpc = "play_unpause"
    /\ paused' = FALSE
    /\ rd_paused' = 0
    /\ cpc' = "play_end"
    /\ UNCHANGED <<svars, playing, error, info, has_file, opt_loops, chvars,
                   wvars, cop, carg, cval, gvars, sink>>

\* play(), line 344, and back to the caller (of play() or of open())
PlayEnd ==
    /\ cpc = "play_end"
    /\ UNCHANGED <<svars, mvars, chvars, wvars, carg, cval, spawned, joined,
                   set_loops, pre, overlap, rd_muted, kvars>>
    /\ Returning(cop)

\* pause() is called: line 369.
CallPause ==
    /\ cpc = "idle"
    /\ paused' = TRUE
    /\ cop' = "pause" /\ cpc' = "pause_end"
    /\ spawned' = 0 /\ joined' = FALSE /\ cval' = NoValue
    /\ UNCHANGED set_loops
    /\ pre' = Flags
    /\ rd_paused' = 0
    /\ UNCHANGED <<svars, playing, error, info, has_file, opt_loops, chvars,
                   wvars, carg, overlap, muted, rd_muted, sink>>

\* pause(), line 370
PauseEnd ==
    /\ cpc = "pause_end"
    /\ UNCHANGED <<svars, mvars, chvars, wvars, carg, cval, spawned, joined,
                   set_loops, pre, overlap, rd_muted, kvars>>
    /\ Returning("pause")

\* The accessors wrapped by playing_wrapper: lines 189-193 let the call
\* through only while msg_dict says the player is playing.
Getters == {"getposition", "getloops", "getloopcount"}

Setters == {"setposition", "setloops"}

\* A getter is called: position, loops or loop_count.
CallGet(kind) ==
    /\ cpc = "idle"
    /\ UNCHANGED <<svars, mvars, chvars, wvars, carg, overlap, rd_muted, kvars>>
    /\ spawned' = 0 /\ joined' = FALSE /\ cval' = NoValue
    /\ UNCHANGED set_loops
    /\ pre' = Flags
    /\ IF playing
       THEN /\ cop' = kind /\ cpc' = "get_send"
            /\ UNCHANGED muted
       ELSE Returning(kind)

\* lines 411, 430, 449: the command goes into the pipe.
GetSend ==
    /\ cpc = "get_send"
    /\ Len(to_worker) < pipe_cap
    /\ to_worker' = Append(to_worker, [cmd |-> cop, v |-> 0])
    /\ cpc' = "get_recv"
    /\ UNCHANGED <<svars, mvars, to_ctl, wvars, cop, carg, cval, gvars, kvars>>

\* lines 412, 431, 450: recv() blocks until the worker has answered.
GetRecv ==
    /\ cpc = "get_recv"
    /\ UNCHANGED <<svars, mvars, to_worker, wvars, carg, spawned, joined,
                   set_loops, pre, overlap, rd_muted, kvars>>
    /\ to_ctl # <<>>
    /\ cval' = [none |-> FALSE, v |-> Head(to_ctl).v]
    /\ to_ctl' = Tail(to_ctl)
    /\ Returning(cop)

\* A setter is called: position = v or loops = v.
CallSet(kind, v) ==
    /\ cpc = "idle"
    /\ UNCHANGED <<svars, mvars, chvars, wvars, overlap, rd_muted, kvars>>
    /\ spawned' = 0 /\ joined' = FALSE /\ cval' = NoValue
    /\ set_loops' = IF kind = "setloops" THEN NoSetLoops ELSE set_loops
    /\ pre' = Flags
    /\ IF playing
       THEN /\ cop' = kind /\ carg' = v /\ cpc' = "set_send"
            /\ UNCHANGED muted
       ELSE /\ Returning(kind)
            /\ UNCHANGED carg

\* lines 421, 440: the command goes into the pipe and the setter returns.
SetSend ==
    /\ cpc = "set_send"
    /\ UNCHANGED <<svars, mvars, to_ctl, wvars, cval, spawned, joined, pre,
                   overlap, rd_muted, kvars>>
    /\ set_loops' = IF cop = "setloops"
                    THEN [none |-> FALSE, v |-> carg, early |-> wpc = "start"]
                    ELSE set_loops
    /\ Len(to_worker) < pipe_cap
    /\ to_worker' = Append(to_worker, [cmd |-> cop, v |-> carg])
    /\ carg' = 0
    /\ Returning(cop)

\* seek(offset, whence) is called.  SEEK_SET and SEEK_END both assign the
\* target t (offset, or length - offset) and differ in nothing else; SEEK_CUR
\* first reads the position through the getter.
Whences == {"set", "cur"}

CallSeek(whence, t) ==
    /\ cpc = "idle"
    /\ UNCHANGED <<svars, mvars, chvars, wvars, overlap, rd_muted, kvars>>
    /\ spawned' = 0 /\ joined' = FALSE /\ cval' = NoValue
    /\ UNCHANGED set_loops
    /\ pre' = Flags
    /\ IF playing
       THEN /\ cop' = "seek" /\ carg' = t
            /\ cpc' = IF whence = "cur" THEN "seek_cur" ELSE "seek_set"
            /\ UNCHANGED muted
       ELSE /\ Returning("seek")
            /\ UNCHANGED carg

\* line 458, self.position += offset: the wrapper of the getter looks at the
\* flag again; None + offset raises TypeError out of seek().
SeekCur ==
    /\ cpc = "seek_cur"
    /\ UNCHANGED <<svars, mvars, chvars, wvars, cval, spawned, joined,
                   set_loops, pre,
                   overlap, rd_muted, kvars>>
    /\ IF playing
       THEN /\ cpc' = "seek_cur_send"
            /\ UNCHANGED <<cop, carg, muted>>
       ELSE /\ Returning("seek_raised")
            /\ carg' = 0

SeekCurSend ==
    /\ cpc = "seek_cur_send"
    /\ Len(to_worker) < pipe_cap
    /\ to_worker' = Append(to_worker, [cmd |-> "getposition", v |-> 0])
    /\ cpc' = "seek_cur_recv"
    /\ UNCHANGED <<svars, mvars, to_ctl, wvars, cop, carg, cval, gvars, kvars>>

SeekCurRecv ==
    /\ cpc = "seek_cur_recv"
    /\ to_ctl # <<>>
    /\ carg' = Head(to_ctl).v + carg
    /\ to_ctl' = Tail(to_ctl)
    /\ cpc' = "seek_set"
    /\ UNCHANGED <<svars, mvars, to_worker, wvars, cop, cval, gvars, kvars>>

\* lines 458-462, the assignment to self.position: the wrapper of the setter
\* looks at the flag and the setter is skipped when it is False.
SeekSet ==
    /\ cpc = "seek_set"
    /\ cpc' = IF playing THEN "seek_set_send" ELSE "seek_get"
    /\ UNCHANGED <<svars, mvars, chvars, wvars, cop, carg, cval, gvars, kvars>>

SeekSetSend ==
    /\ cpc = "seek_set_send"
    /\ Len(to_worker) < pipe_cap
    /\ to_worker' = Append(to_worker, [cmd |-> "setposition", v |-> carg])
    /\ cpc' = "seek_get"
    /\ UNCHANGED <<svars, mvars, to_ctl, wvars, cop, carg, cval, gvars, kvars>>

\* line 464, return self.position, and line 473 of tell(): the wrapper of
\* the getter looks at the flag; None is returned when it is False.
PositionCheck(op, send) ==
    /\ cpc = op
    /\ UNCHANGED <<svars, mvars, chvars, wvars, cval, spawned, joined,
                   set_loops, pre,
                   overlap, rd_muted, kvars>>
    /\ IF playing
       THEN /\ cpc' = send
            /\ UNCHANGED <<cop, carg, muted>>
       ELSE /\ Returning(cop)
            /\ carg' = 0

SeekGet == PositionCheck("seek_get", "pos_send")

\* lines 411-412 on behalf of seek() or tell()
PositionSend ==
    /\ cpc = "pos_send"
    /\ Len(to_worker) < pipe_cap
    /\ to_worker' = Append(to_worker, [cmd |-> "getposition", v |-> 0])
    /\ cpc' = "pos_recv"
    /\ UNCHANGED <<svars, mvars, to_ctl, wvars, cop, carg, cval, gvars, kvars>>

PositionRecv ==
    /\ cpc = "pos_recv"
    /\ UNCHANGED <<svars, mvars, to_worker, wvars, spawned, joined,
                   set_loops, pre, overlap, rd_muted, kvars>>
    /\ to_ctl # <<>>
    /\ carg' = 0
    /\ cval' = [none |-> FALSE, v |-> Head(to_ctl).v]
    /\ to_ctl' = Tail(to_ctl)
    /\ Returning(cop)

\* Mutant of CallTell: tell() without the wrapper of line 467.
CallTellUnwrapped ==
    /\ cpc = "idle"
    /\ UNCHANGED <<svars, mvars, chvars, wvars, carg, overlap, rd_muted, kvars>>
    /\ spawned' = 0 /\ joined' = FALSE /\ cval' = NoValue
    /\ UNCHANGED set_loops
    /\ pre' = Flags
    /\ cop' = "tell" /\ cpc' = "tell_get"
    /\ UNCHANGED muted

\* tell() is called.
CallTell ==
    /\ cpc = "idle"
    /\ UNCHANGED <<svars, mvars, chvars, wvars, carg, overlap, rd_muted, kvars>>
    /\ spawned' = 0 /\ joined' = FALSE /\ cval' = NoValue
    /\ UNCHANGED set_loops
    /\ pre' = Flags
    /\ IF playing
       THEN /\ cop' = "tell" /\ cpc' = "tell_get"
            /\ UNCHANGED muted
       ELSE Returning("tell")

TellGet == PositionCheck("tell_get", "pos_send")

\* seek() and tell(), with the targets and offsets in V
SeekingWith(V) ==
    \/ \E whence \in Whences, t \in V : CallSeek(whence, t)
    \/ SeekCur
    \/ SeekCurSend
    \/ SeekCurRecv
    \/ SeekSet
    \/ SeekSetSend
    \/ SeekGet
    \/ PositionSend
    \/ PositionRecv
    \/ CallTell
    \/ TellGet

\* ----------------------------------------------------- AudioPlayer: worker

\* open_file() and the lines 204-218: a new stream object on the file, its
\* loops set from msg_dict.
OpenStream(lp) ==
    /\ mode' = "r" /\ closed' = FALSE
    /\ data' = <<>> /\ seek_pos' = NoSeek /\ position' = 0
    /\ loops' = LoopsSetter(lp) /\ loop_count' = 0 /\ next_pts' = 0
    /\ pkt_idx' = 1 /\ dec' = "fresh"
    /\ trailers' = 0 /\ releases' = 0
    /\ restarts' = 0 /\ loops_fixed' = TRUE /\ lowered' = FALSE
    /\ written' = 0
    /\ last' = [NoOp EXCEPT !.op = "open"]
    /\ UNCHANGED <<enc_held, sent, muxed, evars>>

\* What opening the file and the device can come to.
Outcomes == {"ok", "nofile", "nodevice"}

\* _play_proc, lines 204-218. Without a file name in msg_dict the call of
\* open_file fails with an exception that is no IOError.
WStart(outcome) ==
    /\ wpc = "start"
    /\ IF ~has_file
       THEN /\ wpc' = "final"
            /\ UNCHANGED <<svars, info, buf>>
       ELSE IF outcome = "ok"
       THEN /\ OpenStream(opt_loops)
            /\ info' = TRUE
            /\ buf' = Bytes(0, BufferSize)
            /\ wpc' = "loop"
       ELSE /\ info' = (outcome = "nodevice")
            /\ wpc' = "fail"
            /\ UNCHANGED <<svars, buf>>
    /\ sink' = [NoSink EXCEPT !.open = (has_file /\ outcome = "ok")]
    /\ UNCHANGED <<playing, paused, error, has_file, opt_loops, chvars,
                   wpaused, cvars, gvars, rd_paused>>

\* Mutant of WLoop: the loop test does not look at msg_dict['playing'].
WLoopIgnoresPlaying ==
    /\ wpc = "loop"
    /\ wpc' = IF buf # <<>> THEN "body" ELSE "loop_paused"
    /\ UNCHANGED <<svars, mvars, chvars, buf, wpaused, cvars, gvars, kvars>>

\* line 222: msg_dict['playing'], then buf
WLoop ==
    /\ wpc = "loop"
    /\ wpc' = IF ~playing THEN "exit"
              ELSE IF buf # <<>> THEN "body" ELSE "loop_paused"
    /\ UNCHANGED <<svars, mvars, chvars, buf, wpaused, cvars, gvars, kvars>>

\* Mutant of WLoopPaused: the loop test is msg_dict['playing'] and buf.
WLoopEndsOnEmpty ==
    /\ wpc = "loop_paused"
    /\ wpc' = "exit"
    /\ UNCHANGED <<svars, mvars, chvars, buf, wpaused, cvars, gvars, kvars>>

\* line 222: msg_dict['paused'], read only when buf is empty
WLoopPaused ==
    /\ wpc = "loop_paused"
    /\ wpc' = IF paused THEN "body" ELSE "exit"
    /\ UNCHANGED <<svars, mvars, chvars, buf, wpaused, cvars, gvars, kvars>>

\* Mutant of WBody: the worker does not look at 'paused'.
WBodyDeaf ==
    /\ wpc = "body"
    /\ wpaused' = FALSE
    /\ wpc' = "io"
    /\ UNCHANGED <<svars, mvars, chvars, buf, cvars, gvars, kvars>>

\* line 250: msg_dict.get('paused', False)
WBody ==
    /\ wpc = "body"
    /\ wpaused' = paused
    /\ wpc' = "io"
    /\ UNCHANGED <<svars, mvars, chvars, buf, cvars, gvars, kvars>>

\* fileobj.readline() of the base class: one read() of a buffer.
Readline == Read(BufferSize)

\* No byte of b comes from the stream.
Silent(b) == \A i \in 1..Len(b) : b[i] = 0

\* Mutant of Filler: a short buffer is written as it is.
FillerNone(b) == <<>>

\* lines 256-259: the filler after a short buffer
Filler(b) == Bytes(0, Max(BufferSize - Len(b), 0))

\* The device after device.write(b).
SinkAfter(b) ==
    [open |-> sink.open,
     first |-> IF sink.first # "none" THEN sink.first
               ELSE IF Silent(b) THEN "silence" ELSE "audio",
     last |-> b]

\* lines 252-266: one buffer goes to the device, read from the stream when
\* not paused and silence when paused; the device may fail with an IOError.
WIo(ok) ==
    /\ wpc = "io"
    /\ IF wpaused
       THEN UNCHANGED <<svars, buf, rd_muted>>
       ELSE /\ Readline
            /\ buf' = last'.ret
            /\ rd_muted' = (rd_muted \/ muted)
    /\ rd_paused' = IF ~wpaused /\ paused /\ rd_paused < 2
                    THEN rd_paused + 1 ELSE rd_paused
    /\ sink' = IF ~ok THEN sink
               ELSE IF wpaused THEN SinkAfter(Bytes(0, BufferSize))
               ELSE SinkAfter(buf' \o Filler(buf'))
    /\ wpaused' = FALSE
    /\ wpc' = IF ok THEN "poll" ELSE "fail"
    /\ UNCHANGED <<mvars, chvars, cvars, spawned, joined, set_loops, pre, overlap,
                   muted>>

\* The text of a command name, letter by letter.
Spell(name) ==
    CASE name = "getposition" ->
            <<"g", "e", "t", "p", "o", "s", "i", "t", "i", "o", "n">>
      [] name = "setposition" ->
            <<"s", "e", "t", "p", "o", "s", "i", "t", "i", "o", "n">>
      [] name = "getloops" -> <<"g", "e", "t", "l", "o", "o", "p", "s">>
      [] name = "setloops" -> <<"s", "e", "t", "l", "o", "o", "p", "s">>
      [] name = "getloopcount" ->
            <<"g", "e", "t", "l", "o", "o", "p", "c", "o", "u", "n", "t">>

\* a in b for two strings
IsSubstring(a, b) ==
    \E i \in 0..(Len(b) - Len(a)) : SubSeq(b, i + 1, i + Len(a)) = a

\* key in command: a getter sends its name as a string, a setter sends a
\* dictionary with one key.
Matches(key, c) ==
    IF c.cmd \in Setters
    THEN key = c.cmd
    ELSE IsSubstring(Spell(key), Spell(c.cmd))

\* Mutant of Dispatch: the chain has no branch for 'setloops'.
DispatchNoSetLoops(c) ==
    IF Matches("getposition", c) THEN "getposition"
    ELSE IF Matches("setposition", c) THEN "setposition"
    ELSE IF Matches("getloops", c) THEN "getloops"
    ELSE IF Matches("getloopcount", c) THEN "getloopcount"
    ELSE "none"

\* lines 273-281: the first branch of the if/elif chain that takes command c
Dispatch(c) ==
    IF Matches("getposition", c) THEN "getposition"
    ELSE IF Matches("setposition", c) THEN "setposition"
    ELSE IF Matches("getloops", c) THEN "getloops"
    ELSE IF Matches("setloops", c) THEN "setloops"
    ELSE IF Matches("getloopcount", c) THEN "getloopcount"
    ELSE "none"

\* Mutant of Reply: every command is answered, a setter with the value set.
ReplyAlways(k, c) ==
    <<[re |-> c.cmd,
       v |-> CASE k = "getposition" -> position
               [] k = "getloops" -> loops
               [] k = "getloopcount" -> loop_count
               [] OTHER -> c.v]>>

\* lines 274, 278, 282: what branch k sends back for command c
Reply(k, c) ==
    CASE k = "getposition" -> <<[re |-> c.cmd, v |-> position]>>
      [] k = "getloops" -> <<[re |-> c.cmd, v |-> loops]>>
      [] k = "getloopcount" -> <<[re |-> c.cmd, v |-> loop_count]>>
      [] OTHER -> <<>>

\* Mutant of WPoll: the first command is served and the pipe is emptied.
WPollEmpties ==
    /\ wpc = "poll"
    /\ IF to_worker = <<>>
       THEN UNCHANGED <<svars, chvars>>
       ELSE LET c == Head(to_worker)
                k == Dispatch(c)
            IN  /\ to_worker' = <<>>
                /\ to_ctl' = to_ctl \o Reply(k, c)
                /\ CASE k = "setposition" -> SetPosition(c.v)
                     [] k = "setloops" -> SetLoops(c.v)
                     [] OTHER -> UNCHANGED svars
    /\ wpc' = "loop"
    /\ UNCHANGED <<mvars, buf, wpaused, cvars, gvars, kvars>>

\* Mutant of WPoll: a served command also resumes playback.
WPollResumes ==
    /\ wpc = "poll"
    /\ IF to_worker = <<>>
       THEN UNCHANGED <<svars, chvars, paused>>
       ELSE LET c == Head(to_worker)
                k == Dispatch(c)
            IN  /\ to_worker' = Tail(to_worker)
                /\ to_ctl' = to_ctl \o Reply(k, c)
                /\ paused' = FALSE
                /\ CASE k = "setposition" -> SetPosition(c.v)
                     [] k = "setloops" -> SetLoops(c.v)
                     [] OTHER -> UNCHANGED svars
    /\ wpc' = "loop"
    /\ UNCHANGED <<playing, error, info, has_file, opt_loops, buf, wpaused,
                   cvars, gvars, kvars>>

\* lines 269-282: at most one command is served per iteration.
WPoll ==
    /\ wpc = "poll"
    /\ IF to_worker = <<>>
       THEN UNCHANGED <<svars, chvars>>
       ELSE LET c == Head(to_worker)
                k == Dispatch(c)
            IN  /\ to_worker' = Tail(to_worker)
                /\ to_ctl' = to_ctl \o Reply(k, c)
                /\ CASE k = "setposition" -> SetPosition(c.v)
                     [] k = "setloops" -> SetLoops(c.v)
                     [] OTHER -> UNCHANGED svars
    /\ wpc' = "loop"
    /\ UNCHANGED <<mvars, buf, wpaused, cvars, gvars, kvars>>

\* Mutant of WExit: playing is cleared on the way out of the loop, with the
\* device and the stream still open.
WExitClearsFirst ==
    /\ wpc = "exit"
    /\ playing' = FALSE
    /\ wpc' = "final"
    /\ UNCHANGED <<svars, paused, error, info, has_file, opt_loops, chvars,
                   buf, wpaused, cvars, gvars, kvars>>

\* The loop has ended: the with blocks close the device and the stream.
WExit ==
    /\ wpc = "exit"
    /\ Close
    /\ sink' = [sink EXCEPT !.open = FALSE]
    /\ wpc' = "final"
    /\ UNCHANGED <<mvars, chvars, buf, wpaused, cvars, gvars, rd_paused>>

\* lines 284-287: an IOError leaves the with blocks, which close what was
\* open, and is stored in msg_dict.
WFail ==
    /\ wpc = "fail"
    /\ IF closed THEN UNCHANGED svars ELSE Close
    /\ error' = TRUE
    /\ sink' = [sink EXCEPT !.open = FALSE]
    /\ wpc' = "final"
    /\ UNCHANGED <<playing, paused, info, has_file, opt_loops, chvars, buf,
                   wpaused, cvars, gvars, rd_paused>>

\* The stream object and the locals of a process that has ended are gone.
NoStream ==
    /\ closed' = TRUE
    /\ data' = <<>> /\ seek_pos' = NoSeek /\ position' = 0
    /\ loops' = Infinite /\ loop_count' = 0 /\ next_pts' = 0
    /\ pkt_idx' = 1 /\ dec' = "fresh"
    /\ trailers' = 0 /\ releases' = 0
    /\ restarts' = 0 /\ loops_fixed' = TRUE /\ lowered' = FALSE
    /\ written' = 0
    /\ last' = NoOp
    /\ buf' = <<>>
    /\ UNCHANGED <<mode, enc_held, sent, muxed, evars>>

\* Mutant of WFinal: the process ends without the finally clause.
WFinalKeepsFlag ==
    /\ wpc = "final"
    /\ wpc' = "dead"
    /\ NoStream
    /\ sink' = NoSink
    /\ UNCHANGED <<mvars, chvars, wpaused, cvars, gvars, rd_paused>>

\* lines 288-290: finally, and the process ends.
WFinal ==
    /\ wpc = "final"
    /\ playing' = FALSE
    /\ wpc' = "dead"
    /\ NoStream
    /\ sink' = NoSink
    /\ UNCHANGED <<paused, error, info, has_file, opt_loops, chvars,
                   wpaused, cvars, gvars, rd_paused>>

\* ---------------------------------------------- AudioPlayer: specification

\* The files the player is given: empty, or one packet.
PlayerSources == {<<>>} \cup {<<p>> : p \in Packets}

\* The values the controller passes to the setters.
PlayerValues == {Infinite, SeekFirst}

\* AudioPlayer() constructed without a file name; no stream is open.
InitSpecPlayer ==
    /\ InitCommon
    /\ InitPlayer
    /\ mode = "r" /\ closed = TRUE
    /\ src \in PlayerSources
    /\ drain = 0 /\ loops = Infinite
    /\ nb_samples = 1 /\ channels = 1 /\ sample_size = 1 /\ enc_delay = 0

\* open(), play() and stop(), with the loops options in LP given to open()
LifecycleWith(LP) ==
    \/ CallStop
    \/ \E lp \in LP : CallOpen(lp)
    \/ StopClear
    \/ StopJoin
    \/ StopEnd
    \/ OpenReset
    \/ OpenPause
    \/ PlayCheck
    \/ CallPlay
    \/ PlaySpawn
    \/ PlayPaused
    \/ PlayUnpause
    \/ PlayEnd

Lifecycle == LifecycleWith({Infinite, SeekFirst})

Pausing ==
    \/ CallPause
    \/ PauseEnd

Controller == Lifecycle \/ Pausing

\* The accessors, with the values in V given to the setters
AccessorsWith(V) ==
    \/ \E kind \in Getters : CallGet(kind)
    \/ GetSend
    \/ GetRecv
    \/ \E kind \in Setters, v \in V : CallSet(kind, v)
    \/ SetSend

Accessors == AccessorsWith(PlayerValues)

Worker ==
    \/ \E outcome \in Outcomes : WStart(outcome)
    \/ WLoop
    \/ WLoopPaused
    \/ WBody
    \/ \E ok \in BOOLEAN : WIo(ok)
    \/ WPoll
    \/ WExit
    \/ WFail
    \/ WFinal

NextPlayer == Controller \/ Worker

SpecPlayer == InitSpecPlayer /\ [][NextPlayer]_vars

\* The file the player is given when its accessors are used: two packets
\* of audio, so that the position moves.
ControlSource ==
    <<[audio |-> TRUE, nbytes |-> MaxSize], [audio |-> TRUE, nbytes |-> 1]>>

InitSpecControl ==
    /\ InitCommon
    /\ InitPlayer
    /\ mode = "r" /\ closed = TRUE
    /\ src = ControlSource
    /\ drain = 0 /\ loops = Infinite
    /\ nb_samples = 1 /\ channels = 1 /\ sample_size = 1 /\ enc_delay = 0

\* The same player on a pipe that takes one command more.
InitSpecPipe ==
    /\ InitCommon
    /\ InitPlayerWith(MaxPipe + 1)
    /\ mode = "r" /\ closed = TRUE
    /\ src = ControlSource
    /\ drain = 0 /\ loops = Infinite
    /\ nb_samples = 1 /\ channels = 1 /\ sample_size = 1 /\ enc_delay = 0

\* The player with its accessors, for a controller that leaves pausing to
\* open() and resuming to play().
NextControl == Lifecycle \/ Accessors \/ Worker

SpecControl == InitSpecControl /\ [][NextControl]_vars

\* The same player with loops = 0 throughout, so that every stream ends and
\* no counter grows; the worker process keeps running while it can, and a
\* recv() whose answer is there returns.
NextOnce ==
    LifecycleWith({SeekFirst}) \/ AccessorsWith({SeekFirst}) \/ Worker

SpecControlFair ==
    /\ InitSpecControl
    /\ [][NextOnce]_vars
    /\ WF_vars(Worker)
    /\ WF_vars(GetRecv)

\* open(), play() and stop() alone, on a stream opened with loops = 0, with
\* a worker process that keeps running while it can.
NextLifecycle == LifecycleWith({SeekFirst}) \/ Worker

SpecLifecycleFair ==
    /\ InitSpecControl
    /\ [][NextLifecycle]_vars
    /\ WF_vars(Worker)

\* open(), play() and stop() with the loops setter, whose commands may be
\* waiting in the pipe when stop() is called; the worker keeps running while
\* it can and join() returns once the worker has ended.
NextStop ==
    \/ LifecycleWith({SeekFirst})
    \/ CallSet("setloops", SeekFirst)
    \/ SetSend
    \/ Worker

SpecStopFair ==
    /\ InitSpecControl
    /\ [][NextStop]_vars
    /\ WF_vars(Worker)
    /\ WF_vars(StopJoin)

\* A controller that calls open(f), then pause(), then play(), each once,
\* on a new player, while the worker runs as it is scheduled.
NextOpenPausePlay ==
    \/ cop = "none" /\ \E lp \in PlayerValues : CallOpen(lp)
    \/ StopEnd
    \/ OpenReset
    \/ OpenPause
    \/ PlayCheck
    \/ PlaySpawn
    \/ PlayEnd
    \/ cop = "open" /\ CallPause
    \/ PauseEnd
    \/ cop = "pause" /\ CallPlay
    \/ PlayPaused
    \/ PlayUnpause
    \/ Worker

SpecOpenPausePlay == InitSpecPlayer /\ [][NextOpenPausePlay]_vars

\* The player with every accessor: the getters and setters, seek() and
\* tell(), on a stream opened with loops = 0.
SeekValues == {SeekFirst}

NextAccess == NextOnce \/ SeekingWith(SeekValues)

SpecAccess == InitSpecControl /\ [][NextAccess]_vars

\* The same on the longer pipe, where two commands can wait at once.
SpecPipe == InitSpecPipe /\ [][NextAccess]_vars

\* The player with seek(offset, SEEK_SET) as its only accessor, to the start
\* of the first and of the second packet, on the longer pipe.
SeekSetTargets == {PositionOf(1), PositionOf(2)}

NextSeekSet ==
    \/ LifecycleWith({SeekFirst})
    \/ \E t \in SeekSetTargets : CallSeek("set", t)
    \/ SeekSet
    \/ SeekSetSend
    \/ SeekGet
    \/ PositionSend
    \/ PositionRecv
    \/ Worker

SpecSeekSet == InitSpecPipe /\ [][NextSeekSet]_vars

\* ------------------------------------------------------------------ claims
IsRead == last.op = "read"

IsWrite == last.op = "write"

\* One encode frame in bytes: samples x channels x sample width.
FrameBytes == nb_samples * channels * sample_size

\* C1 (as stated): read(size) returns exactly size bytes whenever packets
\* remain, or loops == -1, or loop_count < loops when the call begins.
C1_Original == IsRead /\ (last.remain \/ last.live) => Len(last.ret) = last.size

\* C1 (amended): read(size) returns exactly size bytes unless the call meets
\* the end of the source with the loop budget used up and has gathered no
\* byte at all (carry, decoded or drained); then it returns no bytes.
C1_ReadReturnsSize ==
    IsRead =>
        IF last.terminal /\ last.got = 0
        THEN last.ret = <<>>
        ELSE Len(last.ret) = last.size

\* C1 witness: a read that began with a carry, met the end of the source with
\* fewer than size bytes and restarted, and still returned size bytes.
C1_Witness ==
    /\ IsRead /\ last.restart
    /\ last.carry > 0 /\ last.got < last.size
    /\ Len(last.ret) = last.size

\* C2: with loops = N >= 0 held fixed, restarts happen only at the end of the
\* source, each requests a seek to 0, there are never more than N of them and
\* exactly N once a read meets the end without restarting; loop_count is the
\* number of restarts; with loops = 0 every read that carries data returns
\* size bytes.
C2_Restarts ==
    /\ loop_count = restarts
    /\ IsRead /\ last.restart => last.eof /\ seek_pos = SeekFirst
    /\ loops_fixed /\ loops >= 0 =>
        /\ restarts <= loops
        /\ (IsRead /\ last.terminal => restarts = loops)
        /\ (loops = 0 /\ IsRead /\ last.got > 0 =>
                Len(last.ret) = last.size)

\* C2 witness: loops fixed at MaxLoops, that many restarts done, and a read
\* that met the end of the source without restarting.
C2_Witness ==
    /\ loops_fixed /\ loops = MaxLoops /\ restarts = MaxLoops
    /\ IsRead /\ last.terminal /\ last.got > 0

\* C3 (as stated): once the source is exhausted and loop_count >= loops with
\* loops # -1, a read returns size bytes of zero padding, does not restart
\* and leaves loop_count unchanged.
C3_Original ==
    IsRead /\ last.exh /\ ~last.live =>
        /\ last.ret = Bytes(0, last.size)
        /\ ~last.restart
        /\ loop_count = last.lc

\* C3 (amended): once the source is exhausted (no packet left, no seek
\* pending) and loop_count >= loops with loops # -1, a read pulls nothing,
\* does not restart, leaves loop_count unchanged and the stream exhausted,
\* and returns no bytes at all when nothing is left over, otherwise the
\* left-over bytes followed by zero filler up to size.
C3_TerminalReads ==
    IsRead /\ last.exh /\ ~last.live =>
        /\ last.pulls = 0 /\ ~last.restart /\ loop_count = last.lc
        /\ EndOfFile(pkt_idx) /\ seek_pos <= NoSeek
        /\ Terminal(loops, loop_count)
        /\ IF last.got = 0
           THEN last.ret = <<>>
           ELSE /\ Len(last.ret) = last.size
                /\ \A i \in 1..last.size : i > last.got => last.ret[i] = 0

\* C3 witness: such a read with a left-over byte, which it returns zero-filled.
C3_Witness ==
    /\ IsRead /\ last.exh /\ ~last.live
    /\ last.got > 0 /\ last.got < last.size
    /\ last.ret[last.size] = 0

C5_Original ==
    /\ IsRead => Len(data) < last.size
    /\ IsWrite => Len(data) < FrameBytes

\* C5 (amended): after read(size) the carry is shorter than size if it was
\* before the call and no piece appended by the call is longer than size;
\* after write(data) the accumulator is shorter than one encode frame if it
\* was before the call and data is no longer than one frame.
C5_CarryBound ==
    /\ IsRead /\ last.carry < last.size /\ last.maxchunk <= last.size
            => Len(data) < last.size
    /\ IsWrite /\ last.carry < FrameBytes /\ last.n <= FrameBytes
            => Len(data) < FrameBytes

\* C5 witness: a read that began with a carry, appended a frame of size bytes
\* and left a carry again.
C5_Witness ==
    /\ IsRead /\ last.carry > 0 /\ last.carry < last.size
    /\ last.maxchunk = last.size /\ Len(data) > 0

C7_Claim ==
    mode = "w" /\ trailers > 0 =>
        /\ Len(data) < FrameBytes
        /\ enc_held = 0
        /\ muxed = Len(sent)

\* C8: a close() of a closed stream frees nothing again, encodes nothing,
\* writes no trailer and leaves the stream closed.
C8_CloseIdempotent ==
    [][closed =>
        /\ closed'
        /\ releases' = releases /\ trailers' = trailers
        /\ sent' = sent /\ muxed' = muxed /\ enc_held' = enc_held
        /\ next_pts' = next_pts /\ data' = data]_vars

\* C8 witness: a second close() of a writer with bytes left.
C8_Witness ==
    /\ last.op = "close" /\ last.n = 1 /\ mode = "w" /\ data # <<>>
    /\ closed /\ releases = 1

\* C9: the k-th frame handed to the encoder (k = 0, 1, ...) carries
\* pts = k x frame sample count.
C9_MonotonicPts == \A k \in 1..Len(sent) : sent[k] = (k - 1) * nb_samples

\* C9 witness: three frames handed over, of more than one sample each.
C9_Witness == Len(sent) >= 3 /\ nb_samples > 1

\* The controller is back from open() and has called nothing since.
OpenReturned == cpc = "idle" /\ cop = "open"

\* C10 as stated: at the step by which open() returns, the worker that was
\* running before has been stopped, exactly one worker has been started,
\* playing and paused are both True, and the worker never reads the stream
\* between the return of open() and the next call of play().
C10_Original ==
    /\ [][(cop = "open" /\ cpc # "idle" /\ cpc' = "idle")
            => (playing' /\ paused' /\ spawned' = 1 /\ ~overlap')]_vars
    /\ [](~rd_muted)

\* C10 (amended): once open() has returned and until the controller calls
\* another method, the worker that was running before has been stopped,
\* exactly one worker has been started and paused is True; playing is True
\* unless that worker has already ended on an I/O error, which is then
\* stored in error; and the worker never reads the stream between the
\* return of open() and the next call of play().
C10_OpenStartsPaused ==
    /\ OpenReturned =>
          /\ paused
          /\ spawned = 1
          /\ ~overlap
          /\ playing \/ (wpc = "dead" /\ error)
    /\ ~rd_muted

\* C10 witness: open() was called while a worker was running, has waited
\* for it to end, has started the new worker, and has returned; the new
\* worker has written a buffer of silence and is about to poll the pipe.
C10_Witness ==
    /\ OpenReturned /\ joined /\ spawned = 1
    /\ playing /\ paused /\ muted
    /\ wpc = "poll"

\* The controller is back from play() and has called nothing since.
PlayReturned == cpc = "idle" /\ cop = "play"

\* C11 as stated: at the step by which play() returns, a call made with
\* playing False has started exactly one worker and left playing True and
\* paused False, and a call made with playing and paused both True has
\* started no worker and left paused False.
C11_Original ==
    [][(cop = "play" /\ cpc # "idle" /\ cpc' = "idle")
          => /\ ~pre.playing =>
                    spawned' = 1 /\ ~overlap' /\ playing' /\ ~paused'
             /\ (pre.playing /\ pre.paused) => spawned' = 0 /\ ~paused']_vars

\* C11 (amended): once play() has returned and until the next call, a call
\* made with playing False (then no worker was running) has started exactly
\* one worker, has left paused as it found it, and playing is True unless
\* the new worker has already ended; a call made with playing True has
\* started no worker and paused is False.
C11_PlayStartsOrResumes ==
    /\ (cpc = "idle" /\ ~playing) => ~Alive
    /\ PlayReturned =>
          /\ ~pre.playing =>
                /\ spawned = 1 /\ ~overlap
                /\ paused = pre.paused
                /\ playing \/ wpc = "dead"
          /\ pre.playing => spawned = 0 /\ ~paused

\* C11 witness: play() was called in Stopped with the pause flag set (after
\* open, stop, pause); it has started a worker, which runs paused.
C11_Witness ==
    /\ PlayReturned /\ ~pre.playing /\ pre.paused
    /\ spawned = 1 /\ playing /\ paused /\ wpc = "poll"

\* A step of the controller inside pause(), or inside a play() that found
\* playing set (a resume).
ToggleStep ==
    /\ cpc' # cpc
    /\ cop' = "pause" \/ (cop' = "play" /\ pre'.playing)

\* C12 as stated: pause() writes only the paused flag, and while playing
\* and paused are both set the worker does not leave its loop and every
\* buffer it hands to the device is silence, written without a read of the
\* stream.
C12_Original ==
    /\ [][ToggleStep => wpc' = wpc /\ playing' = playing]_vars
    /\ [][(playing /\ paused /\ wpc \in {"loop", "loop_paused"})
            => wpc' # "exit"]_vars
    /\ [][(playing /\ paused /\ wpc = "io" /\ wpc' # "io")
            => /\ UNCHANGED <<position, loop_count, pkt_idx, data>>
               /\ wpc' = "poll" => sink'.last = Bytes(0, BufferSize)]_vars

\* C12 (amended): pause() and a resuming play() write only the paused flag
\* and leave the worker and the stream alone; a worker whose loop test finds
\* playing and paused set does not leave the loop; an iteration whose test
\* of line 250 finds paused set does no read, leaves the stream as it is and
\* hands the device one buffer of silence, unless the device fails; and at
\* most one read, the one of the iteration that had passed line 250 when
\* paused was set, is done while paused stays set.
C12_PauseKeepsWorker ==
    /\ [][ToggleStep =>
            /\ wpc' = wpc /\ playing' = playing /\ overlap' = overlap
            /\ UNCHANGED <<svars, sink, buf>>
            /\ cpc' = "idle" => spawned' = 0]_vars
    /\ [][(playing /\ paused /\ wpc \in {"loop", "loop_paused"})
            => wpc' # "exit"]_vars
    /\ [][(wpc = "body" /\ paused /\ wpc' = "io") => wpaused']_vars
    /\ [][(wpc = "io" /\ wpaused /\ wpc' # "io")
            => /\ UNCHANGED <<svars, buf>>
               /\ wpc' \in {"poll", "fail"}
               /\ wpc' = "poll" => sink'.last = Bytes(0, BufferSize)]_vars
    /\ [](rd_paused <= 1)

\* C12 witness: pause() was called on a playing worker and has returned; the
\* worker has done the one read it had already decided on, then an iteration
\* of silence, and is still in its loop.
C12_Witness ==
    /\ cpc = "idle" /\ cop = "pause" /\ pre.playing /\ ~pre.paused
    /\ playing /\ paused /\ wpc = "poll"
    /\ rd_paused = 1
    /\ ~Silent(buf) /\ sink.last = Bytes(0, BufferSize)

\* The controller is back from stop() and has called nothing since.
StopReturned == cpc = "idle" /\ cop = "stop"

\* C13: once stop() has returned and until the next call, no worker is
\* running and playing is False; and a worker is past its loop (about to
\* clear playing, or ended) only with the stream closed and the device
\* closed, so both were released before stop() returned.
C13_StopJoins ==
    /\ StopReturned => ~Alive /\ ~playing
    /\ wpc \in {"final", "dead"} => closed /\ ~sink.open

\* C13 witness: stop() found playing set, cleared it and waited for a
\* worker that was ending on its own with an I/O error; it has returned.
C13_Witness ==
    /\ StopReturned /\ pre.playing /\ joined
    /\ error /\ wpc = "dead" /\ ~playing /\ closed

\* The Get requests among the commands q.
GetsIn(q) == Cardinality({i \in 1..Len(q) : q[i].cmd \in Getters})

\* What a Get request asks for.
Asked(cmd) ==
    CASE cmd = "getposition" -> position
      [] cmd = "getloops" -> loops
      [] cmd = "getloopcount" -> loop_count

C15_Claim == (cpc = "get_recv") ~> (cpc = "idle")


\* The accessors of the player, by the name the controller records, and the
\* controller step that calls one of them.
AccessorNames == Getters \cup Setters \cup {"seek", "tell"}

AccessorCall ==
    /\ cpc = "idle"
    /\ cop' \in AccessorNames
    /\ <<cvars, gvars>>' # <<cvars, gvars>>

GetLoopsReturns == cpc = "get_recv" /\ cop = "getloops" /\ cpc' = "idle"

\* C17: when the loops getter receives a response and the last loops setter
\* sent n, with no call of open() or play() since (so that no worker has been
\* started in between; any other accessor may have been called), the
\* response is n; this includes a setter whose command was sent before the
\* worker had applied the loops option of open() at line 215.
C17_SetThenGetLoops ==
    [][(GetLoopsReturns /\ ~set_loops.none)
        => cval' = [none |-> FALSE, v |-> set_loops.v]]_vars

\* The getter has returned the value of a setter that was sent while the
\* worker had not yet opened its stream, and the value differs from the loops
\* option given to open().
C17_Witness ==
    /\ cop = "getloops" /\ cpc = "idle"
    /\ ~set_loops.none /\ set_loops.early
    /\ cval = [none |-> FALSE, v |-> set_loops.v]
    /\ set_loops.v # opt_loops


\* C18 as stated: after open(f), pause(), play() the first buffer the device
\* receives is never decoded audio.
C18_Original == sink.first # "audio"

\* C18: in the sequence open(f), pause(), play(), no decoded audio reaches the
\* device before play() has cleared the paused flag, and an iteration whose
\* pause test found the flag set writes silence.  Whether a buffer of silence
\* comes first depends on the worker: it does when the worker's first pause
\* test comes before play() clears the flag.
C18_SilenceUntilPlay ==
    /\ [](sink.first = "audio" => (cop = "play" /\ ~paused))
    /\ [](~Silent(sink.last) => (cop = "play" /\ ~paused))
    /\ [][(wpc = "io" /\ wpaused /\ sink' # sink)
            => (Silent(sink'.last) /\ Len(sink'.last) = BufferSize
                /\ sink'.first = IF sink.first = "none" THEN "silence"
                                 ELSE sink.first)]_vars

\* The three calls have returned and the device has received silence first
\* and decoded audio after it.
C18_Witness ==
    /\ cop = "play" /\ cpc = "idle"
    /\ sink.first = "silence"
    /\ ~Silent(sink.last)


\* The worker has left its loop or has been thrown out of the with blocks.
Terminating == wpc \in {"exit", "fail", "final"}

\* C19: a worker that terminates clears playing as its last step, whatever
\* ended it, and playing is False whenever no worker is alive, so a caller
\* polling the flag sees it False; an I/O error (at open_file, at open_device
\* or at a device write) takes the worker to the except clause, which stores
\* the error, and the error stays until open() resets msg_dict; no step of
\* the worker touches the controller.
C19_WorkerEndClearsPlaying ==
    /\ [](~Alive => ~playing)
    /\ [][(wpc = "final" /\ wpc' # wpc) => (wpc' = "dead" /\ ~playing')]_vars
    /\ [][(wpc = "fail" /\ wpc' # wpc) => (wpc' = "final" /\ error')]_vars
    /\ [][(wpc = "io" /\ wpc' \notin {"io", "poll"}) => wpc' = "fail"]_vars
    /\ [][(error /\ ~error') => cpc = "open_reset"]_vars
    /\ [][(Alive /\ wpc' # wpc) => UNCHANGED cvars]_vars
    /\ Terminating ~> (wpc = "dead" /\ ~playing)

\* A worker started by play() has ended by itself on an I/O error: the error
\* is stored and playing is False, with no stop() called.
C19_Witness ==
    /\ wpc = "dead" /\ error /\ ~playing
    /\ cop = "play" /\ cpc = "idle" /\ ~pre.playing


\* The time between two packets, in the unit of the position.
FrameTime == (Million * TimeBase.num) \div TimeBase.den

\* read() has just carried out a seek to the start of a packet of the source.
SeekThenRead ==
    /\ last.op = "read"
    /\ last.seeked \in {PositionOf(i) : i \in 1..Len(src)}

\* C20 as stated: after a seek to T and one read, the position reported is
\* at T or less than one frame after it, whatever the carry held.
C20_Claim ==
    SeekThenRead
        => (last.seeked <= position /\ position <= last.seeked + FrameTime)


\* The step is a call of read(); the step is an assignment to position.
ReadStep == last'.op = "read"

SetPositionStep == last'.op = "setposition"

\* C21: setting the position stores the target and touches neither the
\* demuxer nor the decoder nor the data; a read() that finds a target above
\* -1 seeks once, to the target stored last, with the decoder flushed, before
\* its first pull (the packets it pulls are those that follow the landing
\* point), and leaves no request behind unless it restarts the stream at the
\* end of the container, which requests position 0; a read() that finds no
\* target does not seek and pulls on from where the demuxer stood.
C21_SeekDeferredToRead ==
    /\ [][SetPositionStep
            => /\ seek_pos' = last'.n
               /\ UNCHANGED <<pkt_idx, dec, data, position, loop_count>>]_vars
    /\ [][(ReadStep /\ seek_pos > NoSeek)
            => /\ last'.seeked = seek_pos
               /\ pkt_idx' = SeekFile(seek_pos) + last'.pulls
               /\ (last'.pulls = 0 /\ ~last'.eof) => dec' = "fresh"
               /\ seek_pos' = IF last'.restart THEN SeekFirst ELSE NoSeek]_vars
    /\ [][(ReadStep /\ seek_pos <= NoSeek)
            => /\ last'.seeked = NoSeek
               /\ pkt_idx' = pkt_idx + last'.pulls
               /\ seek_pos' = IF last'.restart THEN SeekFirst
                              ELSE seek_pos]_vars

\* A read() has carried out a requested seek to position 0, has pulled the
\* first packet of a two-packet source from there, and no request is left.
C21_Witness ==
    /\ last.op = "read" /\ last.seeked = SeekFirst /\ ~last.restart
    /\ Len(src) = 2 /\ last.pulls = 1 /\ pkt_idx = 2
    /\ position = PositionOf(1)
    /\ seek_pos = NoSeek
    /\ loop_count = 0 /\ last.carry = 0


\* The worker is inside its while loop.
InLoop == wpc \in {"loop", "loop_paused", "body", "io", "poll"}

ExitRank(pc) ==
    CASE pc = "start" -> 0
      [] pc = "loop_paused" -> 1
      [] pc = "body" -> 2
      [] pc = "io" -> 3
      [] pc = "poll" -> 4
      [] pc = "loop" -> 5
      [] pc \in {"exit", "fail"} -> 6
      [] pc = "final" -> 7
      [] OTHER -> 8

\* C23: while stop() waits in join() after clearing playing, every step of
\* the worker takes it further towards its end and none takes it back into
\* the loop body, so that it writes to the device at most once more (the one
\* step out of "io") and takes at most one more command (the one step out of
\* "poll"); the worker ends and stop() gets past join().
C23_StopEndsWorker ==
    /\ [](cpc = "stop_join" => ~playing)
    /\ [][(cpc = "stop_join" /\ wpc' # wpc)
            => ExitRank(wpc') > ExitRank(wpc)]_vars
    /\ [][(cpc = "stop_join" /\ sink'.last # sink.last /\ sink'.open)
            => wpc = "io"]_vars
    /\ [][(cpc = "stop_join" /\ to_worker' # to_worker) => wpc = "poll"]_vars
    /\ (cpc = "stop_join") ~> (cpc = "stop_end" /\ ~Alive)

\* stop() is waiting in join() while the worker, whose last buffer has gone
\* to the device, has taken a command that was waiting in the pipe and is on
\* its way to the loop test.
C23_Witness ==
    /\ cpc = "stop_join" /\ cop = "stop"
    /\ wpc = "loop"
    /\ last.op = "setloops"
    /\ sink.first = "audio"
    /\ to_worker = <<>>


\* The worker completes the write of its iteration.
WriteStep == wpc = "io" /\ wpc' = "poll"

\* C24: an iteration whose device write returns has written one buffer of
\* BufferSize bytes: BufferSize zero bytes, with the stream untouched, when
\* its pause test found paused set, and otherwise the bytes readline() gave
\* followed by zero bytes up to BufferSize; the device receives nothing at
\* any other step.
C24_OneBufferPerIteration ==
    /\ [][WriteStep
            => /\ Len(sink'.last) = BufferSize
               /\ wpaused
                    => (sink'.last = Bytes(0, BufferSize)
                        /\ UNCHANGED <<svars, buf>>)
               /\ ~wpaused
                    => /\ last'.op = "read" /\ buf' = last'.ret
                       /\ Len(buf') <= BufferSize
                       /\ SubSeq(sink'.last, 1, Len(buf')) = buf'
                       /\ \A i \in (Len(buf') + 1)..BufferSize :
                            sink'.last[i] = 0]_vars
    /\ [][(Alive' /\ sink'.open /\ sink'.last # sink.last) => WriteStep]_vars
    /\ [][(wpc = "body" /\ wpc' # wpc) => wpc' = "io"]_vars

\* A read that returned nothing has been written as a whole buffer of
\* filler, after a buffer of decoded audio.
C24_Witness ==
    /\ wpc = "poll"
    /\ last.op = "read" /\ buf = <<>>
    /\ sink.first = "audio"
    /\ sink.last = Bytes(0, BufferSize)


\* The worker passes lines 269-282.
PollStep == wpc = "poll" /\ wpc' # wpc

\* C25: the worker can always take its step at the poll, whatever the pipe
\* holds; it comes to the poll from the device write of the same iteration
\* only; at the poll it takes the oldest command and no other when one is
\* waiting, and changes nothing when none is, and goes to the loop test;
\* commands leave the pipe at the poll only and enter it at the end.
C25_PollOncePerIteration ==
    /\ [](wpc = "poll" => ENABLED WPoll)
    /\ [][(wpc' = "poll" /\ wpc # "poll") => wpc = "io"]_vars
    /\ [][PollStep
            => /\ wpc' = "loop"
               /\ IF to_worker = <<>>
                  THEN UNCHANGED <<svars, chvars>>
                  ELSE /\ to_worker' = Tail(to_worker)
                       /\ Len(to_ctl') <= Len(to_ctl) + 1]_vars
    /\ [][(to_worker' # to_worker /\ ~PollStep)
            => /\ Len(to_worker') = Len(to_worker) + 1
               /\ SubSeq(to_worker', 1, Len(to_worker)) = to_worker]_vars

\* The worker has served a loops command at its poll and stands at the loop
\* test while a position command, sent later, still waits in the pipe.
C25_Witness ==
    /\ wpc = "loop"
    /\ Len(to_worker) = 1
    /\ last.op = "setloops"
    /\ cop = "setposition" /\ cpc = "idle"


\* The worker serves the command at the head of the pipe.
ServeStep == PollStep /\ to_worker # <<>>

\* C26: the step that serves a command leaves every field of msg_dict, the
\* decoded data, the demuxer, the decoder, the device and the worker's buffer
\* as they were; a getter changes nothing of the stream and sends the
\* position, the loops or the loop count it finds; 'setposition' changes the
\* pending seek only and 'setloops' the loops only.
C26_CommandsTouchOnlyStream ==
    [][ServeStep
        => LET c == Head(to_worker)
           IN  /\ UNCHANGED <<mvars, mode, closed, data, position, loop_count,
                              next_pts, bvars, evars, restarts, written,
                              buf, wpaused, sink>>
               /\ c.cmd \in Getters
                    => /\ UNCHANGED svars
                       /\ to_ctl' = Append(to_ctl,
                            [re |-> c.cmd,
                             v |-> CASE c.cmd = "getposition" -> position
                                     [] c.cmd = "getloops" -> loops
                                     [] OTHER -> loop_count])
               /\ c.cmd = "setposition"
                    => (seek_pos' = c.v /\ UNCHANGED <<loops, to_ctl>>)
               /\ c.cmd = "setloops"
                    => (loops' = c.v /\ UNCHANGED <<seek_pos, to_ctl>>)]_vars

\* A 'setloops' command has been served while the player was paused: loops
\* has the new value, which is not the option given to open(), and the flags
\* are as they were.
C26_Witness ==
    /\ wpc = "loop" /\ last.op = "setloops"
    /\ loops = last.n /\ loops # opt_loops
    /\ playing /\ paused


\* The packets a call of read() pulls: it starts where the demuxer stands, or
\* where the pending seek lands, and last'.pulls tells how many it took.
PulledFrom == IF seek_pos > NoSeek THEN SeekFile(seek_pos) ELSE pkt_idx

PulledAudio ==
    {i \in PulledFrom..(PulledFrom + last'.pulls - 1) : src[i].audio}

\* C27 as stated: a packet of another stream leaves the position alone; a
\* call of read() sets the position from the last audio packet it pulls and
\* keeps it when it pulls none.
C27_Claim ==
    [][ReadStep
        => position' = IF PulledAudio = {} THEN position
                       ELSE PositionOf(CHOOSE i \in PulledAudio :
                                          \A j \in PulledAudio : j <= i)]_vars


\* seek() returns the position the worker has sent.
SeekReturns == cpc = "pos_recv" /\ cop = "seek" /\ cpc' = "idle"

\* C28 as stated: the value seek(offset, SEEK_SET) returns is at the target
\* or less than one frame after it.
C28_Claim ==
    [][SeekReturns
        => (carg <= cval'.v /\ cval'.v <= carg + FrameTime)]_vars


\* A step of the worker process
WorkerStep == Alive /\ wpc' # wpc

\* C29: a worker is started only when none is alive, so no two are ever alive
\* together; the stream and the device change only by a step of the one
\* worker alive; and the worker changes playing in one step only, its last,
\* which clears it with the stream closed and the device released.
C29_OneWorkerAlive ==
    /\ [](~overlap)
    /\ [][spawned' > spawned => (~Alive /\ ~playing /\ Alive')]_vars
    /\ [][(svars' # svars \/ sink' # sink) => WorkerStep]_vars
    /\ [][(WorkerStep /\ playing' # playing)
            => (closed /\ ~sink.open /\ ~playing' /\ ~Alive')]_vars
    /\ [][(Alive /\ ~Alive') => (wpc = "final" /\ ~playing')]_vars

\* play() has started a worker after an earlier one, whose file info is
\* still in msg_dict, had ended.
C29_Witness ==
    /\ cop = "play" /\ spawned = 1 /\ pre.playing = FALSE
    /\ wpc = "start" /\ info /\ ~overlap
    /\ closed /\ ~sink.open


\* The methods that start and end workers
LifecycleNames == {"open", "play", "stop", "pause"}

\* A step of open(), play(), stop() or pause()
LifecycleStep == cpc' # cpc /\ cop' \in LifecycleNames

\* C30: no step of open(), play(), stop() or pause() changes the pipe,
\* and neither does the end of a worker; a command leaves the pipe only when
\* a worker takes it at its poll; and the worker that takes a setter's
\* command applies it to its own stream, whichever worker the command was
\* sent to.
C30_PipeOutlivesWorker ==
    /\ [][LifecycleStep => UNCHANGED chvars]_vars
    /\ [][(Alive /\ ~Alive') => UNCHANGED chvars]_vars
    /\ [][Len(to_worker') < Len(to_worker) => ServeStep]_vars
    /\ [][(ServeStep /\ Head(to_worker).cmd \in Setters)
            => /\ ~closed'
               /\ last' = [NoOp EXCEPT !.op = Head(to_worker).cmd,
                                       !.n = Head(to_worker).v]]_vars

\* The worker started by open() has applied a 'setloops' command although no
\* loops were set since open() was called: the command was sent to the
\* worker before, which ended without taking it.
C30_Witness ==
    /\ cop = "open" /\ spawned = 1 /\ Alive
    /\ set_loops.none
    /\ last.op = "setloops" /\ loops = last.n


\* The worker reads one buffer from the stream.
WorkerReads == wpc = "io" /\ ~wpaused /\ wpc' # wpc

\* C31: the worker gives the stream the loops option of msg_dict, -1 when
\* open() was given none; with loops = -1 every read of the worker returns a
\* whole buffer, a read that meets the end of the source restarts and adds one
\* to loop_count and any other read leaves it; the worker's buffer is
\* never empty, so the loop test never looks at 'paused'; and the worker
\* leaves its loop only at the loop test while stop() waits for it with
\* playing cleared, or by the IOError of a device write.
C31_InfiniteLoopsNeverExhaust ==
    /\ [][(wpc = "start" /\ wpc' = "loop") => loops' = opt_loops]_vars
    /\ [][(WorkerReads /\ loops = Infinite)
            => /\ last'.op = "read" /\ last'.size = BufferSize
               /\ Len(last'.ret) = BufferSize /\ buf' = last'.ret
               /\ last'.eof = last'.restart
               /\ loop_count' = IF last'.eof THEN loop_count + 1
                                ELSE loop_count]_vars
    /\ [](InLoop /\ loops = Infinite
            => Len(buf) = BufferSize /\ wpc # "loop_paused")
    /\ [][(InLoop /\ loops = Infinite /\ ~InLoop')
            => \/ wpc = "loop" /\ wpc' = "exit" /\ ~playing
                    /\ cpc = "stop_join"
               \/ wpc = "io" /\ wpc' = "fail"]_vars

\* open() was given no loops option and the worker is at its loop test with
\* playing set and a whole buffer of zeros from a read that found the only
\* packet of the source empty, met the end and restarted, for the second
\* time.
C31_Witness ==
    /\ opt_loops = Infinite /\ loops = Infinite
    /\ wpc = "loop" /\ playing /\ ~paused
    /\ last.op = "read" /\ last.eof /\ last.restart
    /\ last.got = 0 /\ loop_count = 2
    /\ buf = Bytes(0, BufferSize)


\* The step is a read() that carries out a pending seek.
SeekingRead == last'.op = "read" /\ last'.seeked > NoSeek

\* C32: setting the position leaves the bytes carried over as they are; a
\* read() that carries out a seek returns the carried bytes first, as many as
\* the size allows, and after them only bytes decoded from the packet sought
\* or later ones, or filler; when the carry holds size bytes or more the
\* read pulls no packet and returns carried bytes only, the rest staying
\* for the next read.
C32_SeekKeepsCarry ==
    /\ [][SetPositionStep => data' = data]_vars
    /\ [][SeekingRead
            => LET size == last'.size
                   ret == last'.ret
                   k == Min(Len(data), size)
               IN  /\ last'.seeked = seek_pos /\ last'.carry = Len(data)
                   /\ Len(ret) >= k
                   /\ Take(ret, k) = Take(data, size)
                   /\ \A i \in (k + 1)..Len(ret) :
                        ret[i] \in {0, DrainTag} \/ ret[i] >= SeekFile(seek_pos)
                   /\ Len(data) >= size
                        => /\ ret = Take(data, size)
                           /\ last'.pulls = 0
                           /\ data' = Drop(data, size)]_vars

\* A read of two bytes has carried out a seek to the first packet with one
\* byte of the second packet left over: it returned that byte and after it a
\* byte of the first packet.
C32_Witness ==
    /\ last.op = "read" /\ last.seeked = PositionOf(1)
    /\ last.size = 2 /\ last.carry = 1
    /\ last.ret = <<2, 1>>


Remaining == Len(src) - SeekBeforeRead.idx + 1

\* C34: in every state of an open read stream, whatever the source and the
\* loops, read(size) with size > 0 comes to a result, having pulled no more
\* packets than the demuxer has left; a call that meets the end of the source has
\* pulled them all, pulls nothing after the end and returns, restarting or
\* not; a call that does not meet the end stops pulling because it holds
\* size bytes.
C34_ReadTerminates ==
    /\ [](io_wrapper
            => \A size \in 1..MaxSize : ReadCall(size).pulls <= Remaining)
    /\ [][last'.op = "read"
            => /\ last'.pulls <= Remaining
               /\ pkt_idx' = SeekBeforeRead.idx + last'.pulls
               /\ IF last'.eof
                  THEN /\ last'.pulls = Remaining
                       /\ pkt_idx' = Len(src) + 1
                       /\ last'.restart # last'.terminal
                  ELSE /\ last'.got >= last'.size
                       /\ ~last'.restart /\ ~last'.terminal]_vars

\* A read under loops = -1 on a source that holds only packets of another
\* stream: it has pulled them all, met the end with nothing decoded, and
\* returned a buffer of filler.
C34_Witness ==
    /\ last.op = "read" /\ last.eof /\ last.restart
    /\ loops = Infinite
    /\ Len(src) = MaxPackets /\ \A i \in 1..Len(src) : ~src[i].audio
    /\ last.pulls = MaxPackets /\ last.got = 0
    /\ last.ret = Bytes(0, last.size)


\* C35: a read() that finds a target of -1 or less does not seek: it goes on
\* from the demuxer's place with the decoder as it was, and leaves the target
\* as it found it unless the call ends in a restart; so a negative target
\* is never sought, by no later read either, and -1 set by the user is the
\* state of no request.  A read() that finds the target 0 seeks to the first
\* packet with the decoder flushed and clears the request.
C35_NegativeTargetNeverSought ==
    /\ [][(last'.op = "read" /\ seek_pos <= NoSeek)
            => /\ last'.seeked = NoSeek
               /\ pkt_idx' = pkt_idx + last'.pulls
               /\ last'.remain = ~EndOfFile(pkt_idx)
               /\ (last'.pulls = 0 /\ ~last'.eof) => dec' = dec
               /\ seek_pos' = IF last'.restart THEN SeekFirst
                              ELSE seek_pos]_vars
    /\ [][(SetPositionStep /\ last'.n = NoSeek /\ seek_pos = NoSeek)
            => UNCHANGED <<fvars, bvars>>]_vars
    /\ [][(last'.op = "read" /\ seek_pos = SeekFirst)
            => /\ last'.seeked = SeekFirst
               /\ pkt_idx' = 1 + last'.pulls
               /\ last'.remain = (src # <<>>)
               /\ seek_pos' = IF last'.restart THEN SeekFirst
                              ELSE NoSeek]_vars

\* The position was set to -2 with the demuxer past the first packet, and the
\* read that followed has pulled the next packet, not the first; the target
\* is still -2.
C35_Witness ==
    /\ last.op = "read" /\ seek_pos = NoSeek - 1
    /\ last.seeked = NoSeek
    /\ last.pulls >= 1 /\ pkt_idx - last.pulls > 1
    /\ Len(last.ret) = last.size /\ last.ret[1] > 1
=============================================================================
